---- MODULE Spec2Model ----
(***************************************************************************)
(* State-machine model of the vocabulary quiz: the App component           *)
(* (src/App.tsx), the QuizCard component (src/components/Button.tsx,       *)
(* lines 43-196) and the Gemini service (src/services/geminiService.ts).   *)
(* Strings are sequences of one-character strings, so that trim() and      *)
(* includes() are computed and not assumed.                                *)
(***************************************************************************)
EXTENDS Integers, Sequences, FiniteSets, TLC

\* ------------------------------------------------------------------ bounds
\* Longest text the user types into the answer field.
MaxLen == 2
\* Longest word list the generative backend answers with.
MaxBatch == 2
\* Longest word list of the sessions whose result screen is checked alone.
MaxWords == 5

\* ----------------------------------------------------------------- strings
Alphabet == {" ", "x", "y"}

RECURSIVE StringsUpTo(_)
StringsUpTo(n) ==
  IF n = 0 THEN {<<>>}
  ELSE LET shorter == StringsUpTo(n - 1)
       IN shorter \cup {Append(s, c) : s \in {t \in shorter : Len(t) = n - 1}, c \in Alphabet}

\* What the user can type into the input element.
Inputs == StringsUpTo(MaxLen)

\* String.prototype.trim: strips leading and trailing white space.
RECURSIVE TrimStart(_)
TrimStart(s) == IF s # <<>> /\ Head(s) = " " THEN TrimStart(Tail(s)) ELSE s

RECURSIVE TrimEnd(_)
TrimEnd(s) ==
  IF s # <<>> /\ s[Len(s)] = " " THEN TrimEnd(SubSeq(s, 1, Len(s) - 1)) ELSE s

Trim(s) == TrimEnd(TrimStart(s))

\* String.prototype.includes: t occurs in s as a contiguous run ("" always does).
Includes(s, t) ==
  \E i \in 0..(Len(s) - Len(t)) : SubSeq(s, i + 1, i + Len(t)) = t

\* ------------------------------------------------------------- data model
LevelCET6 == "CET-6"
LevelKAOYAN == "Postgraduate Exam"
VocabularyLevel == {LevelCET6, LevelKAOYAN}

IDLE == "IDLE"
LOADING == "LOADING"
ERROR == "ERROR"
READY == "READY"
LoadingState == {IDLE, LOADING, ERROR, READY}

\* Word items the backend can answer with.  The schema asks for the five
\* fields but constrains neither the number of meanings nor any text, so an
\* item may come with no meaning and empty texts.
WordA == [word |-> "alpha", meanings |-> << <<"y">>, <<" ", "x">> >>,
          example |-> "ex", exampleTranslation |-> "tr"]
WordB == [word |-> "beta", meanings |-> << >>,
          example |-> "", exampleTranslation |-> ""]
WordItem == {WordA, WordB}

RECURSIVE SeqsUpTo(_, _)
SeqsUpTo(S, n) ==
  IF n = 0 THEN {<<>>}
  ELSE LET shorter == SeqsUpTo(S, n - 1)
       IN shorter \cup {Append(s, e) : s \in {t \in shorter : Len(t) = n - 1}, e \in S}

\* The arrays JSON.parse can hand back for a batch request.
Batches == SeqsUpTo(WordItem, MaxBatch)

INITIAL_QUIZ_STATE ==
  [currentWordIndex |-> 0, words |-> <<>>, score |-> 0,
   totalAnswered |-> 0, streak |-> 0, isFinished |-> FALSE]

\* CheckResult | null of the QuizCard.
NoResult == [present |-> FALSE, isCorrect |-> FALSE, userAnswer |-> <<>>, explanation |-> ""]

MkResult(ok, answer, why) ==
  [present |-> TRUE, isCorrect |-> ok, userAnswer |-> answer, explanation |-> why]

\* useState initial values of a QuizCard.
InitialCard == [input |-> <<>>, isChecking |-> FALSE, result |-> NoResult]

\* No smartCheckAnswer call in flight.
NoCall == [active |-> FALSE, word |-> "", meanings |-> <<>>, userAnswer |-> <<>>, rawInput |-> <<>>]

\* The count startGame asks fetchWordBatch for.
FetchCount == 5

\* No fetchWordBatch call in flight.
NoFetch == [active |-> FALSE, level |-> LevelCET6, count |-> FetchCount]

\* The result screen is not rendered.
NoView == [shown |-> FALSE, correct |-> 0, accuracy |-> 0, isNaN |-> FALSE]

\* Math.round of the quotient p / q of two integers, q > 0: floor(p/q + 0.5).
MathRound(p, q) == (2 * p + q) \div (2 * q)

VARIABLES
  loadingState,   \* App: LoadingState
  selectedLevel,  \* App: VocabularyLevel
  quizState,      \* App: QuizState
  errorMsg,       \* App: error banner text
  card,           \* QuizCard: input, isChecking, result
  fetchPending,   \* a fetchWordBatch call awaited by startGame
  oracleCall,     \* a smartCheckAnswer call awaited by handleSubmit
  outcomes,       \* history: wasCorrect of each handleNextWord of this session
  oracleCalls,    \* history: generateContent calls issued for the card's submission
  oracleReply,    \* history: how the backend answered that submission's call
  fetchReply,     \* history: how the backend answered the last batch request
  inFlight,       \* history: calls issued and not yet settled, by kind
  view            \* App: what the result screen shows

vars == <<loadingState, selectedLevel, quizState, errorMsg, card,
          fetchPending, oracleCall, outcomes, oracleCalls, oracleReply, fetchReply,
          inFlight, view>>

\* ------------------------------------------------------- geminiService.ts
\* What ai.models.generateContent can do for a batch request: reject, answer
\* without text, answer text that JSON.parse refuses, answer a JSON array.
FetchResponses ==
  {[kind |-> k, value |-> <<>>] : k \in {"reject", "notext", "badjson"}}
    \cup {[kind |-> "json", value |-> b] : b \in Batches}

\* fetchWordBatch: rethrows what the call or JSON.parse throws, returns []
\* for an empty text and the parsed array otherwise.
fetchWordBatch(resp) ==
  IF resp.kind \in {"reject", "badjson"} THEN [threw |-> TRUE, words |-> <<>>]
  ELSE IF resp.kind = "notext" THEN [threw |-> FALSE, words |-> <<>>]
  ELSE [threw |-> FALSE, words |-> resp.value]

\* What generateContent can do for a verification request: reject, answer
\* without text, answer unparseable text, answer the JSON literal null, or
\* answer an object with a verdict.
OracleResponses ==
  {[kind |-> k, isCorrect |-> FALSE] : k \in {"reject", "notext", "badjson", "null"}}
    \cup {[kind |-> "json", isCorrect |-> b] : b \in BOOLEAN}

\* Variant of isStrictMatch that asks every meaning to match (every for some).
isStrictMatch_Every(correctMeanings, userAnswer) ==
  \A i \in 1..Len(correctMeanings) :
    Includes(userAnswer, correctMeanings[i]) \/ Includes(correctMeanings[i], userAnswer)

\* The fallback of smartCheckAnswer's catch block.
isStrictMatch(correctMeanings, userAnswer) ==
  \E i \in 1..Len(correctMeanings) :
    Includes(userAnswer, correctMeanings[i]) \/ Includes(correctMeanings[i], userAnswer)

\* smartCheckAnswer: the value its promise resolves with (it never rejects:
\* the call and JSON.parse are both inside its try block).
smartCheckAnswer(resp, word, correctMeanings, userAnswer) ==
  IF resp.kind \in {"reject", "badjson"}
  THEN [isNull |-> FALSE,
        isCorrect |-> isStrictMatch(correctMeanings, userAnswer),
        explanation |-> IF isStrictMatch(correctMeanings, userAnswer)
                        THEN "Local match" ELSE "API Error"]
  ELSE IF resp.kind = "notext"
  THEN [isNull |-> FALSE, isCorrect |-> FALSE, explanation |-> "cannot verify"]
  ELSE IF resp.kind = "null"
  THEN [isNull |-> TRUE, isCorrect |-> FALSE, explanation |-> ""]
  ELSE [isNull |-> FALSE, isCorrect |-> resp.isCorrect, explanation |-> "oracle explanation"]

\* ------------------------------------------------------------ rendering
\* Variant of renderAccuracy that truncates (Math.floor for Math.round).
renderAccuracy_Floor(score, n) ==
  IF n = 0 THEN [isNaN |-> TRUE, value |-> 0]
  ELSE [isNaN |-> FALSE, value |-> (100 * score) \div n]

\* The accuracy of renderResult: Math.round((score / words.length) * 100).
\* 0 / 0 is NaN.  For the list lengths of this model the floating-point
\* quotient is further from a rounding boundary than its error, so the
\* exact quotient rounds the same way.
renderAccuracy(score, n) ==
  IF n = 0 THEN [isNaN |-> TRUE, value |-> 0]
  ELSE [isNaN |-> FALSE, value |-> MathRound(100 * score, n)]

\* The result screen, which the App renders when it is READY and the quiz
\* is finished.
AppView ==
  IF loadingState = READY /\ quizState.isFinished
  THEN [shown |-> TRUE, correct |-> quizState.score,
        accuracy |-> renderAccuracy(quizState.score, Len(quizState.words)).value,
        isNaN |-> renderAccuracy(quizState.score, Len(quizState.words)).isNaN]
  ELSE NoView

\* ------------------------------------------------------------ QuizCard
\* Variant of localMatch that only asks whether a meaning contains the answer.
localMatch_MeaningContainsOnly(meanings, normalizedInput) ==
  \E i \in 1..Len(meanings) : Includes(meanings[i], normalizedInput)

\* The cheap local check of handleSubmit.
localMatch(meanings, normalizedInput) ==
  \E i \in 1..Len(meanings) :
    Includes(meanings[i], normalizedInput) \/ Includes(normalizedInput, meanings[i])

\* renderGame shows a QuizCard for words[currentWordIndex] when the App is
\* READY, the quiz is not finished and that word exists.
CardMounted ==
  /\ loadingState = READY
  /\ ~quizState.isFinished
  /\ quizState.currentWordIndex < Len(quizState.words)

\* words[currentWordIndex] (arrays are 0-based in the source).
CurrentWord == quizState.words[quizState.currentWordIndex + 1]

\* The form is rendered while the card has no result.
FormShown == CardMounted /\ ~card.result.present

\* onChange of the input element.
SetInput(text) ==
  /\ FormShown
  /\ card.input # text
  /\ card' = [card EXCEPT !.input = text]
  /\ UNCHANGED <<loadingState, selectedLevel, quizState, errorMsg, fetchPending,
                 oracleCall, outcomes, oracleCalls, oracleReply, fetchReply, inFlight>>
  /\ view' = AppView'

\* Variant of HandleSubmit without the check of an empty trimmed input
\* (neither the early return nor the disabled button).
HandleSubmit_AcceptsEmpty ==
  /\ FormShown
  /\ ~card.isChecking
  /\ LET normalizedInput == Trim(card.input) IN
       IF localMatch(CurrentWord.meanings, normalizedInput)
       THEN /\ card' = [card EXCEPT !.result = MkResult(TRUE, normalizedInput, "Correct!"),
                                    !.isChecking = FALSE]
            /\ oracleCall' = oracleCall
            /\ oracleCalls' = 0
            /\ inFlight' = inFlight
       ELSE /\ card' = [card EXCEPT !.isChecking = TRUE]
            /\ oracleCall' = [active |-> TRUE, word |-> CurrentWord.word,
                              meanings |-> CurrentWord.meanings,
                              userAnswer |-> normalizedInput, rawInput |-> card.input]
            /\ oracleCalls' = 1
            /\ inFlight' = [inFlight EXCEPT !.checks = @ + 1]
  /\ UNCHANGED <<loadingState, selectedLevel, quizState, errorMsg, fetchPending,
                 outcomes, oracleReply, fetchReply>>
  /\ view' = AppView'

\* handleSubmit up to its first suspension.  The submit button is disabled
\* while the trimmed input is empty or a check is running.
HandleSubmit ==
  /\ FormShown
  /\ ~card.isChecking
  /\ Trim(card.input) # <<>>
  /\ LET normalizedInput == Trim(card.input) IN
       IF localMatch(CurrentWord.meanings, normalizedInput)
       THEN /\ card' = [card EXCEPT !.result = MkResult(TRUE, normalizedInput, "Correct!"),
                                    !.isChecking = FALSE]
            /\ oracleCall' = oracleCall
            /\ oracleCalls' = 0
            /\ inFlight' = inFlight
       ELSE /\ card' = [card EXCEPT !.isChecking = TRUE]
            /\ oracleCall' = [active |-> TRUE, word |-> CurrentWord.word,
                              meanings |-> CurrentWord.meanings,
                              userAnswer |-> normalizedInput, rawInput |-> card.input]
            /\ oracleCalls' = 1
            /\ inFlight' = [inFlight EXCEPT !.checks = @ + 1]
  /\ UNCHANGED <<loadingState, selectedLevel, quizState, errorMsg, fetchPending,
                 outcomes, oracleReply, fetchReply>>
  /\ view' = AppView'

\* Variant of SubmitSettle that asks the backend once more when the call
\* was rejected or its text was no JSON.
SubmitSettle_RetryOnFailure(resp) ==
  /\ oracleCall.active
  /\ IF resp.kind \in {"reject", "badjson"} /\ oracleCalls < 2
     THEN /\ oracleCalls' = oracleCalls + 1
          /\ UNCHANGED <<card, oracleCall, inFlight>>
     ELSE /\ LET aiResult == smartCheckAnswer(resp, oracleCall.word, oracleCall.meanings,
                                              oracleCall.userAnswer)
             IN card' = [card EXCEPT
                           !.result = IF aiResult.isNull
                                      THEN MkResult(FALSE, oracleCall.rawInput,
                                                    "Verification error. Try again.")
                                      ELSE MkResult(aiResult.isCorrect, oracleCall.userAnswer,
                                                    aiResult.explanation),
                           !.isChecking = FALSE]
          /\ oracleCall' = NoCall
          /\ inFlight' = [inFlight EXCEPT !.checks = @ - 1]
          /\ UNCHANGED oracleCalls
  /\ oracleReply' = resp.kind
  /\ UNCHANGED <<loadingState, selectedLevel, quizState, errorMsg, fetchPending,
                 outcomes, fetchReply>>
  /\ view' = AppView'

\* Variant of SubmitSettle without the catch block: a null answer leaves
\* the card without a result.
SubmitSettle_NoCatch(resp) ==
  /\ oracleCall.active
  /\ LET aiResult == smartCheckAnswer(resp, oracleCall.word, oracleCall.meanings,
                                      oracleCall.userAnswer)
     IN card' = [card EXCEPT
                   !.result = IF aiResult.isNull
                              THEN NoResult
                              ELSE MkResult(aiResult.isCorrect, oracleCall.userAnswer,
                                            aiResult.explanation),
                   !.isChecking = FALSE]
  /\ oracleCall' = NoCall
  /\ oracleReply' = resp.kind
  /\ inFlight' = [inFlight EXCEPT !.checks = @ - 1]
  /\ UNCHANGED <<loadingState, selectedLevel, quizState, errorMsg, fetchPending,
                 outcomes, oracleCalls, fetchReply>>
  /\ view' = AppView'

\* Variant of SubmitSettle that also counts a correct result into the score
\* as soon as it arrives.
SubmitSettle_ScoresAtOnce(resp) ==
  /\ oracleCall.active
  /\ LET aiResult == smartCheckAnswer(resp, oracleCall.word, oracleCall.meanings,
                                      oracleCall.userAnswer)
     IN /\ card' = [card EXCEPT
                      !.result = IF aiResult.isNull
                                 THEN MkResult(FALSE, oracleCall.rawInput,
                                               "Verification error. Try again.")
                                 ELSE MkResult(aiResult.isCorrect, oracleCall.userAnswer,
                                               aiResult.explanation),
                      !.isChecking = FALSE]
        /\ quizState' = IF ~aiResult.isNull /\ aiResult.isCorrect
                        THEN [quizState EXCEPT !.score = @ + 1]
                        ELSE quizState
  /\ oracleCall' = NoCall
  /\ oracleReply' = resp.kind
  /\ inFlight' = [inFlight EXCEPT !.checks = @ - 1]
  /\ UNCHANGED <<loadingState, selectedLevel, errorMsg, fetchPending,
                 outcomes, oracleCalls, fetchReply>>
  /\ view' = AppView'

\* handleSubmit after the await: the result of smartCheckAnswer, or the catch
\* block when reading aiResult.isCorrect throws; then the finally block.
SubmitSettle(resp) ==
  /\ oracleCall.active
  /\ LET aiResult == smartCheckAnswer(resp, oracleCall.word, oracleCall.meanings,
                                      oracleCall.userAnswer)
     IN card' = [card EXCEPT
                   !.result = IF aiResult.isNull
                              THEN MkResult(FALSE, oracleCall.rawInput,
                                            "Verification error. Try again.")
                              ELSE MkResult(aiResult.isCorrect, oracleCall.userAnswer,
                                            aiResult.explanation),
                   !.isChecking = FALSE]
  /\ oracleCall' = NoCall
  /\ oracleReply' = resp.kind
  /\ inFlight' = [inFlight EXCEPT !.checks = @ - 1]
  /\ UNCHANGED <<loadingState, selectedLevel, quizState, errorMsg, fetchPending,
                 outcomes, oracleCalls, fetchReply>>
  /\ view' = AppView'

\* ----------------------------------------------------------------- App
\* Variant of handleNextWord that counts every answer as a point.
handleNextWord_ScoreAlways(prev, wasCorrect) ==
  LET isLastWord == prev.currentWordIndex >= Len(prev.words) - 1 IN
  IF isLastWord
  THEN [prev EXCEPT !.score = prev.score + 1,
                    !.totalAnswered = prev.totalAnswered + 1,
                    !.streak = IF wasCorrect THEN prev.streak + 1 ELSE 0,
                    !.isFinished = TRUE]
  ELSE [prev EXCEPT !.score = prev.score + 1,
                    !.totalAnswered = prev.totalAnswered + 1,
                    !.streak = IF wasCorrect THEN prev.streak + 1 ELSE 0,
                    !.currentWordIndex = prev.currentWordIndex + 1]

\* Variant of handleNextWord that keeps the streak on a wrong answer.
handleNextWord_KeepStreak(prev, wasCorrect) ==
  LET isLastWord == prev.currentWordIndex >= Len(prev.words) - 1 IN
  IF isLastWord
  THEN [prev EXCEPT !.score = IF wasCorrect THEN prev.score + 1 ELSE prev.score,
                    !.totalAnswered = prev.totalAnswered + 1,
                    !.streak = IF wasCorrect THEN prev.streak + 1 ELSE prev.streak,
                    !.isFinished = TRUE]
  ELSE [prev EXCEPT !.score = IF wasCorrect THEN prev.score + 1 ELSE prev.score,
                    !.totalAnswered = prev.totalAnswered + 1,
                    !.streak = IF wasCorrect THEN prev.streak + 1 ELSE prev.streak,
                    !.currentWordIndex = prev.currentWordIndex + 1]

\* Variant of handleNextWord whose last-word test is off by one.
handleNextWord_LastWordOffByOne(prev, wasCorrect) ==
  LET isLastWord == prev.currentWordIndex >= Len(prev.words) IN
  IF isLastWord
  THEN [prev EXCEPT !.score = IF wasCorrect THEN prev.score + 1 ELSE prev.score,
                    !.totalAnswered = prev.totalAnswered + 1,
                    !.streak = IF wasCorrect THEN prev.streak + 1 ELSE 0,
                    !.isFinished = TRUE]
  ELSE [prev EXCEPT !.score = IF wasCorrect THEN prev.score + 1 ELSE prev.score,
                    !.totalAnswered = prev.totalAnswered + 1,
                    !.streak = IF wasCorrect THEN prev.streak + 1 ELSE 0,
                    !.currentWordIndex = prev.currentWordIndex + 1]

\* Variant of handleNextWord that finishes on the first word already.
handleNextWord_FinishEarly(prev, wasCorrect) ==
  [prev EXCEPT !.score = IF wasCorrect THEN prev.score + 1 ELSE prev.score,
               !.totalAnswered = prev.totalAnswered + 1,
               !.streak = IF wasCorrect THEN prev.streak + 1 ELSE 0,
               !.isFinished = TRUE]

\* Variant of handleNextWord that moves the index past the last word too.
handleNextWord_IndexPastEnd(prev, wasCorrect) ==
  LET isLastWord == prev.currentWordIndex >= Len(prev.words) - 1 IN
  [prev EXCEPT !.score = IF wasCorrect THEN prev.score + 1 ELSE prev.score,
               !.totalAnswered = prev.totalAnswered + 1,
               !.streak = IF wasCorrect THEN prev.streak + 1 ELSE 0,
               !.currentWordIndex = prev.currentWordIndex + 1,
               !.isFinished = isLastWord]

\* The state updater of handleNextWord.
handleNextWord(prev, wasCorrect) ==
  LET isLastWord == prev.currentWordIndex >= Len(prev.words) - 1 IN
  IF isLastWord
  THEN [prev EXCEPT !.score = IF wasCorrect THEN prev.score + 1 ELSE prev.score,
                    !.totalAnswered = prev.totalAnswered + 1,
                    !.streak = IF wasCorrect THEN prev.streak + 1 ELSE 0,
                    !.isFinished = TRUE]
  ELSE [prev EXCEPT !.score = IF wasCorrect THEN prev.score + 1 ELSE prev.score,
                    !.totalAnswered = prev.totalAnswered + 1,
                    !.streak = IF wasCorrect THEN prev.streak + 1 ELSE 0,
                    !.currentWordIndex = prev.currentWordIndex + 1]

\* Variant of HandleContinue that advances only past a correct answer and
\* presents the same word again after an incorrect one.
HandleContinue_NeedsCorrect ==
  /\ CardMounted
  /\ card.result.present
  /\ quizState' = IF card.result.isCorrect
                  THEN handleNextWord(quizState, card.result.isCorrect)
                  ELSE quizState
  /\ outcomes' = Append(outcomes, card.result.isCorrect)
  /\ card' = InitialCard
  /\ oracleCalls' = 0
  /\ oracleReply' = "none"
  /\ UNCHANGED <<loadingState, selectedLevel, errorMsg, fetchPending, oracleCall,
                 fetchReply, inFlight>>
  /\ view' = AppView'

\* Variant of HandleContinue whose card keeps its result for the next word
\* (no effect on [wordData]).
HandleContinue_KeepResult ==
  /\ CardMounted
  /\ card.result.present
  /\ quizState' = handleNextWord(quizState, card.result.isCorrect)
  /\ outcomes' = Append(outcomes, card.result.isCorrect)
  /\ UNCHANGED <<loadingState, selectedLevel, errorMsg, card, fetchPending, oracleCall,
                 oracleCalls, oracleReply, fetchReply, inFlight>>
  /\ view' = AppView'

\* handleContinue: onNext(result.isCorrect) when a result is shown.  The
\* card then loses its state: its effect on [wordData] clears it for the
\* next word, and after the last word the card is unmounted.
HandleContinue ==
  /\ CardMounted
  /\ card.result.present
  /\ quizState' = handleNextWord(quizState, card.result.isCorrect)
  /\ outcomes' = Append(outcomes, card.result.isCorrect)
  /\ card' = InitialCard
  /\ oracleCalls' = 0
  /\ oracleReply' = "none"
  /\ UNCHANGED <<loadingState, selectedLevel, errorMsg, fetchPending, oracleCall,
                 fetchReply, inFlight>>
  /\ view' = AppView'

\* Variant of CanStart that offers "Play Again" during the game too.
CanStart_DuringGame(level) ==
  \/ loadingState \in {IDLE, ERROR}
  \/ loadingState = READY /\ level = selectedLevel

\* Variant of CanStart whose level buttons are not disabled while LOADING.
CanStart_IgnoreLoading(level) ==
  \/ loadingState \in {IDLE, ERROR, LOADING}
  \/ loadingState = READY /\ quizState.isFinished /\ level = selectedLevel

\* The level buttons of the home screen (shown for IDLE, LOADING and ERROR,
\* disabled while LOADING) and "Play Again" of the result screen.
CanStart(level) ==
  \/ loadingState \in {IDLE, ERROR}
  \/ loadingState = READY /\ quizState.isFinished /\ level = selectedLevel

\* startGame up to the await.
StartGame(level) ==
  /\ CanStart(level)
  /\ loadingState' = LOADING
  /\ selectedLevel' = level
  /\ errorMsg' = ""
  /\ fetchPending' = [active |-> TRUE, level |-> level, count |-> FetchCount]
  /\ fetchReply' = "none"
  /\ inFlight' = [inFlight EXCEPT !.fetches = @ + 1]
  /\ UNCHANGED <<quizState, card, oracleCall, outcomes, oracleCalls, oracleReply>>
  /\ view' = AppView'

\* Variant of StartGameSettle that takes an empty batch for a finished quiz.
StartGameSettle_EmptyIsFinished(resp) ==
  /\ fetchPending.active
  /\ fetchPending' = NoFetch
  /\ fetchReply' = resp.kind
  /\ LET r == fetchWordBatch(resp) IN
       IF r.threw
       THEN /\ errorMsg' = "Failed to generate vocabulary."
            /\ loadingState' = ERROR
            /\ UNCHANGED <<quizState, outcomes>>
       ELSE /\ quizState' = [INITIAL_QUIZ_STATE EXCEPT !.words = r.words,
                                                       !.isFinished = (r.words = <<>>)]
            /\ loadingState' = READY
            /\ outcomes' = <<>>
            /\ UNCHANGED errorMsg
  /\ inFlight' = [inFlight EXCEPT !.fetches = @ - 1]
  /\ UNCHANGED <<selectedLevel, card, oracleCall, oracleCalls, oracleReply>>
  /\ view' = AppView'

\* Variant of StartGameSettle whose catch branch also clears the quiz state.
StartGameSettle_ClearOnError(resp) ==
  /\ fetchPending.active
  /\ fetchPending' = NoFetch
  /\ fetchReply' = resp.kind
  /\ LET r == fetchWordBatch(resp) IN
       IF r.threw
       THEN /\ errorMsg' = "Failed to generate vocabulary."
            /\ loadingState' = ERROR
            /\ quizState' = INITIAL_QUIZ_STATE
            /\ outcomes' = <<>>
       ELSE /\ quizState' = [INITIAL_QUIZ_STATE EXCEPT !.words = r.words]
            /\ loadingState' = READY
            /\ outcomes' = <<>>
            /\ UNCHANGED errorMsg
  /\ inFlight' = [inFlight EXCEPT !.fetches = @ - 1]
  /\ UNCHANGED <<selectedLevel, card, oracleCall, oracleCalls, oracleReply>>
  /\ view' = AppView'

\* startGame after the await: the try branch or the catch branch.
StartGameSettle(resp) ==
  /\ fetchPending.active
  /\ fetchPending' = NoFetch
  /\ fetchReply' = resp.kind
  /\ LET r == fetchWordBatch(resp) IN
       IF r.threw
       THEN /\ errorMsg' = "Failed to generate vocabulary."
            /\ loadingState' = ERROR
            /\ UNCHANGED <<quizState, outcomes>>
       ELSE /\ quizState' = [INITIAL_QUIZ_STATE EXCEPT !.words = r.words]
            /\ loadingState' = READY
            /\ outcomes' = <<>>
            /\ UNCHANGED errorMsg
  /\ inFlight' = [inFlight EXCEPT !.fetches = @ - 1]
  /\ UNCHANGED <<selectedLevel, card, oracleCall, oracleCalls, oracleReply>>
  /\ view' = AppView'

\* Variant of ResetGame whose button is offered during the game too.
ResetGame_DuringGame ==
  /\ loadingState = READY
  /\ loadingState' = IDLE
  /\ quizState' = INITIAL_QUIZ_STATE
  /\ outcomes' = <<>>
  /\ UNCHANGED <<selectedLevel, errorMsg, card, fetchPending, oracleCall,
                 oracleCalls, oracleReply, fetchReply, inFlight>>
  /\ view' = AppView'

\* Variant of ResetGame that omits setQuizState(INITIAL_QUIZ_STATE).
ResetGame_KeepWords ==
  /\ loadingState = READY
  /\ quizState.isFinished
  /\ loadingState' = IDLE
  /\ UNCHANGED <<selectedLevel, quizState, errorMsg, card, fetchPending, oracleCall,
                 outcomes, oracleCalls, oracleReply, fetchReply, inFlight>>
  /\ view' = AppView'

\* resetGame: "Back to Menu" of the result screen.
ResetGame ==
  /\ loadingState = READY
  /\ quizState.isFinished
  /\ loadingState' = IDLE
  /\ quizState' = INITIAL_QUIZ_STATE
  /\ outcomes' = <<>>
  /\ UNCHANGED <<selectedLevel, errorMsg, card, fetchPending, oracleCall,
                 oracleCalls, oracleReply, fetchReply, inFlight>>
  /\ view' = AppView'

\* ------------------------------------------------------- specification
Init ==
  /\ loadingState = IDLE
  /\ selectedLevel = LevelCET6
  /\ quizState = INITIAL_QUIZ_STATE
  /\ errorMsg = ""
  /\ card = InitialCard
  /\ fetchPending = NoFetch
  /\ oracleCall = NoCall
  /\ outcomes = <<>>
  /\ oracleCalls = 0
  /\ oracleReply = "none"
  /\ fetchReply = "none"
  /\ inFlight = [fetches |-> 0, checks |-> 0]
  /\ view = AppView

Next ==
  \/ \E level \in VocabularyLevel : StartGame(level)
  \/ \E resp \in FetchResponses : StartGameSettle(resp)
  \/ \E text \in Inputs : SetInput(text)
  \/ HandleSubmit
  \/ \E resp \in OracleResponses : SubmitSettle(resp)
  \/ HandleContinue
  \/ ResetGame

Spec == Init /\ [][Next]_vars

\* Every verification request is eventually answered or fails.
FairSpec == Spec /\ WF_vars(\E resp \in OracleResponses : SubmitSettle(resp))

\* The user types a non-empty answer, "x", into the input of the form.
TypeAnswer == SetInput(<<"x">>)

\* A user who keeps typing answers, submitting them and pressing Continue,
\* and a backend whose verification calls all settle.
ProgressSpec ==
  /\ FairSpec
  /\ WF_vars(TypeAnswer)
  /\ SF_vars(HandleSubmit)
  /\ WF_vars(HandleContinue)

\* Sessions about to finish: READY on the last of n words, the n - 1 earlier
\* words answered with any outcomes, and the last word resolved by the
\* oracle as correct or not (the answer "xx" matches no meaning locally).
AccInit ==
  \E words \in SeqsUpTo(WordItem, MaxWords) \ {<<>>} :
    \E hist \in {h \in SeqsUpTo(BOOLEAN, MaxWords) : Len(h) = Len(words) - 1} :
      \E verdict \in BOOLEAN :
        /\ loadingState = READY
        /\ selectedLevel = LevelCET6
        /\ quizState = [currentWordIndex |-> Len(words) - 1, words |-> words,
                        score |-> Cardinality({i \in 1..Len(hist) : hist[i]}),
                        totalAnswered |-> Len(hist),
                        streak |-> Cardinality({i \in 1..Len(hist) :
                                                 \A j \in i..Len(hist) : hist[j]}),
                        isFinished |-> FALSE]
        /\ errorMsg = ""
        /\ card = [input |-> <<"x", "x">>, isChecking |-> FALSE,
                   result |-> MkResult(verdict, <<"x", "x">>, "oracle explanation")]
        /\ fetchPending = NoFetch
        /\ oracleCall = NoCall
        /\ outcomes = hist
        /\ oracleCalls = 1
        /\ oracleReply = "json"
        /\ fetchReply = "json"
        /\ inFlight = [fetches |-> 0, checks |-> 0]
        /\ view = AppView

\* The last advance of such a session, and leaving its result screen.
AccNext ==
  \/ HandleContinue
  \/ ResetGame

AccSpec == AccInit /\ [][AccNext]_vars

\* The session's lifecycle as the render dispatch shows it: the home screen
\* with its level buttons enabled (IDLE, ERROR) or disabled (LOADING), the
\* result screen, or the game.
Lifecycle ==
  IF loadingState = LOADING THEN "Loading"
  ELSE IF loadingState \in {IDLE, ERROR} THEN "Idle"
  ELSE IF quizState.isFinished THEN "Finished"
  ELSE "Ready"

\* ---------------------------------------------------------------- claims
\* a occurs in b: some i characters, then a, then some j characters make up b.
Substring(a, b) ==
  \E i \in 0..Len(b), j \in 0..Len(b) :
    /\ i + Len(a) + j = Len(b)
    /\ \A k \in 1..Len(a) : b[i + k] = a[k]

\* The answer is a substring of some accepted meaning or contains one.
Contained(meanings, answer) ==
  \E i \in 1..Len(meanings) :
    Substring(answer, meanings[i]) \/ Substring(meanings[i], answer)

\* A step that submits the answer typed into the form of the current word.
SubmitStep ==
  /\ FormShown
  /\ ~card.isChecking
  /\ card'.isChecking \/ card'.result.present

\* C1: a submitted answer whose trimmed text is non-empty and is a substring
\* of an accepted meaning, or contains one, is resolved at once as correct,
\* with no oracle call issued or pending for it.
C1_LocalMatchSkipsOracle ==
  [][(SubmitStep /\ Trim(card.input) # <<>>
        /\ Contained(CurrentWord.meanings, Trim(card.input)))
      => (/\ card'.result.present
          /\ card'.result.isCorrect
          /\ ~card'.isChecking
          /\ ~oracleCall'.active
          /\ oracleCalls' = 0)]_vars

\* C1 witness: an answer that strictly contains an accepted meaning was
\* accepted locally, without an oracle call.
C1_Witness ==
  /\ CardMounted
  /\ card.result.present
  /\ card.result.isCorrect
  /\ oracleCalls = 0
  /\ \E i \in 1..Len(CurrentWord.meanings) :
       /\ Substring(CurrentWord.meanings[i], card.result.userAnswer)
       /\ Len(CurrentWord.meanings[i]) < Len(card.result.userAnswer)

\* Number of correct outcomes in a history.
RECURSIVE CountCorrect(_)
CountCorrect(h) ==
  IF h = <<>> THEN 0 ELSE (IF Head(h) THEN 1 ELSE 0) + CountCorrect(Tail(h))

\* Length of the run of correct outcomes that ends a history.
RECURSIVE TrailingCorrect(_)
TrailingCorrect(h) ==
  IF h = <<>> \/ ~h[Len(h)] THEN 0
  ELSE 1 + TrailingCorrect(SubSeq(h, 1, Len(h) - 1))

\* C2: after n advances of the session (since its start; a reset ends the
\* session), totalAnswered is n and score is the number of correct outcomes
\* among them.
C2_CountsMatchAdvances ==
  /\ quizState.totalAnswered = Len(outcomes)
  /\ quizState.score = CountCorrect(outcomes)

\* C2 witness: two advances, one of them correct.
C2_Witness ==
  /\ Len(outcomes) = 2
  /\ CountCorrect(outcomes) = 1
  /\ quizState.score = 1

\* C3: streak is the length of the trailing run of correct outcomes of the
\* session's advances (0 after a start or a reset).
C3_StreakIsTrailingRun ==
  quizState.streak = TrailingCorrect(outcomes)

\* C3 witness: a correct outcome followed by an incorrect one put the
\* streak back to 0.
C3_Witness ==
  /\ outcomes = <<TRUE, FALSE>>
  /\ quizState.streak = 0

\* C4 as the specification states it: finished exactly when totalAnswered
\* equals the number of words, in every state.
C4_FinishedIffAllAnswered ==
  quizState.isFinished <=> (quizState.totalAnswered = Len(quizState.words))

\* C4 as amended: finished exactly when there is at least one word and
\* totalAnswered equals the number of words.
C4_FinishedIffAllAnsweredNonEmpty ==
  quizState.isFinished <=>
    (Len(quizState.words) >= 1 /\ quizState.totalAnswered = Len(quizState.words))

\* C4 witness: a finished session of two words, both answered.
C4_Witness ==
  /\ quizState.isFinished
  /\ Len(quizState.words) = 2
  /\ quizState.totalAnswered = 2

\* A step that applies one more outcome to the session.
AdvanceStep == Len(outcomes') = Len(outcomes) + 1

\* C5: in a session of L >= 1 words, finished is false while fewer than L
\* answers are counted, and it turns true on the advance that makes
\* totalAnswered equal L and on no other step.
C5_FinishedExactlyOnLastAdvance ==
  [][/\ (Len(quizState.words) >= 1 /\ quizState.totalAnswered < Len(quizState.words))
          => ~quizState.isFinished
     /\ (~quizState.isFinished /\ quizState'.isFinished)
          => (/\ AdvanceStep
              /\ quizState'.words = quizState.words
              /\ quizState'.totalAnswered = quizState.totalAnswered + 1
              /\ quizState'.totalAnswered = Len(quizState.words))
     /\ (AdvanceStep /\ quizState'.totalAnswered = Len(quizState'.words))
          => quizState'.isFinished]_vars

\* C5 witness: a session of two words after its first advance, not finished.
C5_Witness ==
  /\ Len(quizState.words) = 2
  /\ quizState.totalAnswered = 1
  /\ Len(outcomes) = 1
  /\ ~quizState.isFinished

\* C6 as the specification states it:
\* 0 <= score <= totalAnswered <= position <= length(words) in every state.
C6_CounterChain ==
  /\ 0 <= quizState.score
  /\ quizState.score <= quizState.totalAnswered
  /\ quizState.totalAnswered <= quizState.currentWordIndex
  /\ quizState.currentWordIndex <= Len(quizState.words)

\* C6 as amended: 0 <= score <= totalAnswered <= length(words) and
\* 0 <= position <= length(words) in every state; position equals
\* totalAnswered until the session is finished, and in the finished state
\* position stays on the last word: position = length(words) - 1 =
\* totalAnswered - 1.
C6_CounterChainAmended ==
  /\ 0 <= quizState.score
  /\ quizState.score <= quizState.totalAnswered
  /\ quizState.totalAnswered <= Len(quizState.words)
  /\ 0 <= quizState.currentWordIndex
  /\ quizState.currentWordIndex <= Len(quizState.words)
  /\ ~quizState.isFinished => quizState.currentWordIndex = quizState.totalAnswered
  /\ quizState.isFinished =>
       /\ quizState.currentWordIndex = Len(quizState.words) - 1
       /\ quizState.currentWordIndex = quizState.totalAnswered - 1

\* C6 witness: the finished state after the last advance of two, with one
\* correct answer.
C6_Witness ==
  /\ quizState.isFinished
  /\ quizState.totalAnswered = 2
  /\ quizState.score = 1
  /\ quizState.currentWordIndex = 1

\* C7: the session is never READY with an empty word list (an empty batch
\* is a generation error).
C7_NeverReadyWithoutWords ==
  loadingState = READY => Len(quizState.words) >= 1

\* C8: a start does not touch the quiz state while its batch request is
\* pending, and when the request fails the quiz state stays as it was, the
\* error is shown and the session is back at the idle home screen.
C8_FetchFailureKeepsState ==
  [][/\ (loadingState' = LOADING \/ (loadingState = LOADING /\ loadingState' # READY))
          => quizState' = quizState
     /\ (fetchPending.active /\ fetchReply' \in {"reject", "badjson"})
          => (/\ quizState' = quizState
              /\ errorMsg' # ""
              /\ ~fetchPending'.active
              /\ Lifecycle' = "Idle")]_vars

\* C8 witness: "Play Again" failed; the finished session's state is still
\* there and the error is shown.
C8_Witness ==
  /\ fetchReply = "reject"
  /\ Lifecycle = "Idle"
  /\ errorMsg # ""
  /\ quizState.isFinished
  /\ quizState.totalAnswered = 2

\* An explanation that marks a verdict as not coming from the oracle.
Degraded == {"API Error", "Verification error. Try again."}

\* C9: when the oracle call of a submission failed (the request was
\* rejected, or its text is no JSON object), the result is incorrect and
\* its explanation is a degraded one.
C9_OracleFailureIsIncorrect ==
  (card.result.present /\ oracleReply \in {"reject", "badjson", "null"})
    => (/\ ~card.result.isCorrect
        /\ card.result.explanation \in Degraded)

\* C9 witness: a submission for a word without meanings, answered with
\* unparseable text, resolved as incorrect by the fallback.
C9_Witness ==
  /\ CardMounted
  /\ card.result.present
  /\ oracleReply = "badjson"
  /\ card.result.explanation = "API Error"
  /\ CurrentWord.meanings = <<>>

\* C10: a submission that is being verified eventually has its result,
\* with the session still READY and no error shown.
C10_VerifyingResolves ==
  card.isChecking ~>
    (card.result.present /\ ~card.isChecking /\ loadingState = READY /\ errorMsg = "")

\* C10 witness: a submission whose oracle call was rejected has a result.
C10_Witness ==
  /\ card.result.present
  /\ ~card.isChecking
  /\ oracleReply = "reject"
  /\ oracleCalls = 1
  /\ loadingState = READY

\* The oracle call of the card's submission failed.
OracleFailed == oracleReply \in {"reject", "badjson", "null"}

\* C11: a submission issues at most one oracle call: none when its trimmed
\* answer matches locally, exactly one otherwise; after a failed call the
\* fallback result is there, with no second call issued or pending.
C11_AtMostOneOracleCall ==
  /\ oracleCalls \in {0, 1}
  /\ inFlight.checks <= oracleCalls
  /\ card.isChecking => (oracleCalls = 1 /\ inFlight.checks = 1)
  /\ card.result.present =>
       oracleCalls = (IF Contained(CurrentWord.meanings, Trim(card.result.userAnswer))
                      THEN 0 ELSE 1)
  /\ OracleFailed =>
       (card.result.present /\ oracleCalls = 1 /\ inFlight.checks = 0 /\ ~oracleCall.active)

\* C11 witness: for a word with meanings, an answer without a local match
\* whose single oracle call was rejected.
C11_Witness ==
  /\ CardMounted
  /\ CurrentWord.meanings # <<>>
  /\ card.result.present
  /\ oracleReply = "reject"
  /\ oracleCalls = 1
  /\ inFlight.checks = 0

\* A start is offered.
StartOffered == ENABLED (\E level \in VocabularyLevel : StartGame(level))

\* C12: never two batch requests in flight, never two verifications in
\* flight, and while one of either kind is in flight neither a start nor a
\* submission is accepted.
C12_OnePendingCall ==
  /\ inFlight.fetches <= 1
  /\ inFlight.checks <= 1
  /\ (inFlight.fetches + inFlight.checks >= 1) => (~StartOffered /\ ~ENABLED HandleSubmit)

\* C12 witness: a verification is in flight while the input holds a new,
\* non-empty answer.
C12_Witness ==
  /\ inFlight.checks = 1
  /\ card.isChecking
  /\ Trim(card.input) # <<>>
  /\ card.input # oracleCall.rawInput

Resolved == CardMounted /\ card.result.present /\ ~card.isChecking

\* C14: the quiz state changes only by a start, a reset or an advance; an
\* advance is possible only when the current word is resolved, it applies
\* that word's outcome once, and it leaves no outcome behind that a second
\* advance could apply.
C14_OneAdvancePerOutcome ==
  [][/\ ~Resolved => ~ENABLED HandleContinue
     /\ quizState' # quizState =>
          \/ quizState' = [INITIAL_QUIZ_STATE EXCEPT !.words = quizState'.words]
          \/ /\ Resolved
             /\ outcomes' = Append(outcomes, card.result.isCorrect)
             /\ quizState'.totalAnswered = quizState.totalAnswered + 1
             /\ quizState'.score =
                  quizState.score + (IF card.result.isCorrect THEN 1 ELSE 0)
             /\ ~card'.result.present
             /\ ~card'.isChecking]_vars

\* C14 witness: after the advance of a correct first answer the second word
\* is presented without a result.
C14_Witness ==
  /\ CardMounted
  /\ outcomes = <<TRUE>>
  /\ quizState.score = 1
  /\ card = InitialCard

\* A step that issues a batch request.
FetchIssued == inFlight'.fetches > inFlight.fetches

\* C15 as the specification states it: a batch request is issued from the
\* idle state only.
C15_StartOnlyFromIdle ==
  [][FetchIssued => Lifecycle = "Idle"]_vars

\* C15 as amended: a batch request is issued from the idle state or, by
\* "Play Again", from the finished state; while loading and during the game
\* no start is offered.
C15_StartOnlyFromIdleOrFinished ==
  [][/\ Lifecycle \in {"Loading", "Ready"} => ~StartOffered
     /\ FetchIssued => Lifecycle \in {"Idle", "Finished"}]_vars

\* C15 witness: a batch request issued from the finished state is pending.
C15_Witness ==
  /\ loadingState = LOADING
  /\ inFlight.fetches = 1
  /\ quizState.isFinished

\* r is the integer nearest to p / q, the upper one of two equally near.
Nearest(r, p, q) ==
  LET dist(k) == IF p >= k * q THEN p - k * q ELSE k * q - p IN
  \A k \in 0..(p \div q + 1) :
    /\ dist(r) <= dist(k)
    /\ dist(r) = dist(k) => k <= r

\* C16: the result screen of a finished session shows the score and, as
\* accuracy, 100 * score / length(words) rounded to the nearest integer, a
\* number from 0 to 100; 3 of 5 gives 60.
C16_AccuracyIsRoundedPercent ==
  view.shown =>
    /\ quizState.isFinished
    /\ view.correct = quizState.score
    /\ ~view.isNaN
    /\ view.accuracy \in 0..100
    /\ Nearest(view.accuracy, 100 * quizState.score, Len(quizState.words))
    /\ (quizState.score = 3 /\ Len(quizState.words) = 5) => view.accuracy = 60

\* C16 witness: the result screen of a session of 5 words with 3 correct
\* answers shows 60.
C16_Witness ==
  /\ view.shown
  /\ Len(quizState.words) = 5
  /\ quizState.score = 3
  /\ view.accuracy = 60

\* C17: a finished session has at least one word, so the result screen
\* never divides by a length of 0.
C17_FinishedHasWords ==
  (quizState.isFinished \/ view.shown) =>
    (Len(quizState.words) >= 1 /\ ~view.isNaN)

\* C17 witness: the result screen of a session of one word, answered
\* correctly, shows 100.
C17_Witness ==
  /\ view.shown
  /\ Len(quizState.words) = 1
  /\ view.correct = 1
  /\ view.accuracy = 100

EmptyAnswer == FormShown /\ ~card.isChecking /\ Trim(card.input) = <<>>

\* The current word is being verified or has its result.
NotPresenting == CardMounted /\ (card.isChecking \/ card.result.present)

\* C19: while the trimmed answer is empty or the current word is not
\* Presenting, a submission has no effect: none can take effect, no oracle
\* call is made, no result is produced for an empty answer or replaced once
\* present, and the session state changes only by the advance of a resolved
\* word.
C19_RejectedSubmitIsNoOp ==
  [][(EmptyAnswer \/ NotPresenting) =>
       /\ ~ENABLED HandleSubmit
       /\ ~SubmitStep
       /\ oracleCalls' <= oracleCalls
       /\ inFlight'.checks <= inFlight.checks
       /\ EmptyAnswer =>
            /\ ~card'.result.present
            /\ ~card'.isChecking
            /\ oracleCall' = oracleCall
            /\ quizState' = quizState
       /\ (CardMounted /\ card.isChecking) =>
            /\ quizState' = quizState
            /\ card'.result.present =>
                 card'.result.userAnswer \in {oracleCall.userAnswer, oracleCall.rawInput}
       /\ (CardMounted /\ card.result.present) =>
            \/ card'.result = card.result /\ quizState' = quizState
            \/ AdvanceStep
    ]_vars

\* C19 witness: the form of the current word holds an answer of blanks only.
C19_Witness ==
  /\ EmptyAnswer
  /\ card.input # <<>>
  /\ ~card.result.present
  /\ oracleCalls = 0

\* The pending batch request settles with a word list.
StartSucceeds == fetchPending.active /\ ~fetchPending'.active /\ loadingState' = READY

\* The pending oracle call settles with the word's result.
VerificationStep == oracleCall.active /\ ~oracleCall'.active

\* C20: the word list changes only when a start succeeds or the session is
\* reset, never by a submission, its verification result or an advance; and
\* a submission and its verification result leave the whole session state
\* (index, score, totalAnswered, streak, isFinished) as it was.
C20_WordsFixedSubmitKeepsCounters ==
  [][/\ quizState'.words # quizState.words =>
          \/ StartSucceeds
          \/ loadingState' = IDLE /\ quizState' = INITIAL_QUIZ_STATE
     /\ (SubmitStep \/ VerificationStep \/ AdvanceStep) =>
          quizState'.words = quizState.words
     /\ (SubmitStep \/ VerificationStep) => quizState' = quizState
    ]_vars

\* C20 witness: the second word of a two-word session has its result from
\* the oracle while the counters still stand at one answered word.
C20_Witness ==
  /\ CardMounted
  /\ Len(quizState.words) = 2
  /\ quizState.currentWordIndex = 1
  /\ quizState.totalAnswered = 1
  /\ card.result.present
  /\ oracleReply = "json"

\* C21: a session started with L >= 1 words is finished exactly when L
\* outcomes have been applied, never after fewer and never with more; and
\* when the user keeps answering and advancing and every oracle call
\* settles, a session that is READY with L >= 1 words eventually finishes.
C21_FinishesAfterAllAdvances ==
  /\ [](Len(quizState.words) >= 1 =>
          /\ Len(outcomes) <= Len(quizState.words)
          /\ quizState.isFinished <=> (Len(outcomes) = Len(quizState.words)))
  /\ (loadingState = READY /\ Len(quizState.words) >= 1) ~> quizState.isFinished

\* C21 witness: a session of two words finished by its second advance, the
\* first answer incorrect.
C21_Witness ==
  /\ loadingState = READY
  /\ Len(quizState.words) = 2
  /\ Len(outcomes) = 2
  /\ ~outcomes[1]
  /\ quizState.isFinished

\* A word item with at least one meaning, an example and a translation.
WellFormed(item) ==
  /\ Len(item.meanings) >= 1
  /\ item.example # ""
  /\ item.exampleTranslation # ""

\* C22: a batch holding an item with no meaning, an empty example or an
\* empty example translation is rejected as a whole: the session is never
\* READY with such an item among its words.
C22_NeverReadyWithMalformedItem ==
  loadingState = READY =>
    \A i \in 1..Len(quizState.words) : WellFormed(quizState.words[i])

====
